---- MODULE Spec2Model ----
(***************************************************************************)
(* State-machine model of the CAN netlink gateway, net/can/gw.c:          *)
(* the job list (cgw_list), the management handlers cgw_create_job,        *)
(* cgw_remove_job, cgw_remove_all_jobs, cgw_dump_jobs, the netdevice       *)
(* notifier cgw_notifier and the receive hot path can_can_gw_rcv.          *)
(***************************************************************************)
EXTENDS Integers, Sequences, FiniteSets, TLC

(***************************************************************************)
(* Bounds of the model.                                                    *)
(***************************************************************************)
MaxJobs == 3        \* jobs ever allocated by successful ADDs
MaxFrames == 3      \* frames that ever arrive from the bus
MaxDumps == 1       \* LIST enumerations started
MaxRoom == 2        \* jobs that fit into the skb of one dump call
MaxHops == 2        \* forwardings of one frame that are followed
HotJobs == 2        \* jobs allocated while the hot path of one core runs
RaceJobs == 1       \* jobs allocated while the hot path of two cores runs
FwdJobs == 2        \* jobs allocated while the forwarding of one core is followed

(***************************************************************************)
(* Program constants.                                                      *)
(***************************************************************************)
CGW_CS_DISABLED == 42
CGW_MOD_ID == 1
CGW_MOD_DLC == 2
CGW_MOD_DATA == 4
CGW_FLAGS_CAN_ECHO == 1
CGW_FLAGS_CAN_SRC_TSTAMP == 2
CGW_MODATTR_LEN == 17
CGW_CS_XOR_LEN == 4
CGW_CS_CRC8_LEN == 282
CAN_FILTER_LEN == 8
U32_LEN == 4
MAX_MODFUNCTIONS == 17

AF_CAN == "AF_CAN"
CGW_TYPE_CAN_CAN == "CGW_TYPE_CAN_CAN"
ARPHRD_CAN == "ARPHRD_CAN"
NETDEV_UNREGISTER == "NETDEV_UNREGISTER"

(***************************************************************************)
(* Bitwise operations on naturals (the C operators &, | and ^).            *)
(***************************************************************************)
RECURSIVE BitAnd(_, _)
BitAnd(a, b) ==
    IF a = 0 \/ b = 0 THEN 0
    ELSE (a % 2) * (b % 2) + 2 * BitAnd(a \div 2, b \div 2)

RECURSIVE BitOr(_, _)
BitOr(a, b) ==
    IF a = 0 THEN b
    ELSE IF b = 0 THEN a
    ELSE (IF a % 2 = 1 \/ b % 2 = 1 THEN 1 ELSE 0) + 2 * BitOr(a \div 2, b \div 2)

RECURSIVE BitXor(_, _)
BitXor(a, b) ==
    IF a = 0 THEN b
    ELSE IF b = 0 THEN a
    ELSE ((a + b) % 2) + 2 * BitXor(a \div 2, b \div 2)

(***************************************************************************)
(* struct can_frame as kept in struct cf_mod: id, dlc and the 8 data bytes *)
(* read as one 64 bit word.  The frame of a mod attribute on the wire      *)
(* (struct cgw_frame_mod) also carries the 3 padding bytes after can_dlc.  *)
(***************************************************************************)
ZeroFrame == [can_id |-> 0, can_dlc |-> 0, data |-> 0]

canframecpy(src) ==
    [can_id |-> src.can_id, can_dlc |-> src.can_dlc, data |-> src.data]

(***************************************************************************)
(* The modification functions generated by MODFUNC.                        *)
(***************************************************************************)
(* A variant whose mod_or_id is an exclusive or. *)
MODFUNC_orxor(func, cf, mod) ==
    CASE func = "mod_and_id"   -> [cf EXCEPT !.can_id  = BitAnd(@, mod.modframe.and.can_id)]
      [] func = "mod_and_dlc"  -> [cf EXCEPT !.can_dlc = BitAnd(@, mod.modframe.and.can_dlc)]
      [] func = "mod_and_data" -> [cf EXCEPT !.data    = BitAnd(@, mod.modframe.and.data)]
      [] func = "mod_or_id"    -> [cf EXCEPT !.can_id  = BitXor(@, mod.modframe.or.can_id)]
      [] func = "mod_or_dlc"   -> [cf EXCEPT !.can_dlc = BitOr(@, mod.modframe.or.can_dlc)]
      [] func = "mod_or_data"  -> [cf EXCEPT !.data    = BitOr(@, mod.modframe.or.data)]
      [] func = "mod_xor_id"   -> [cf EXCEPT !.can_id  = BitXor(@, mod.modframe.xor.can_id)]
      [] func = "mod_xor_dlc"  -> [cf EXCEPT !.can_dlc = BitXor(@, mod.modframe.xor.can_dlc)]
      [] func = "mod_xor_data" -> [cf EXCEPT !.data    = BitXor(@, mod.modframe.xor.data)]
      [] func = "mod_set_id"   -> [cf EXCEPT !.can_id  = mod.modframe.set.can_id]
      [] func = "mod_set_dlc"  -> [cf EXCEPT !.can_dlc = mod.modframe.set.can_dlc]
      [] func = "mod_set_data" -> [cf EXCEPT !.data    = mod.modframe.set.data]

MODFUNC(func, cf, mod) ==
    CASE func = "mod_and_id"   -> [cf EXCEPT !.can_id  = BitAnd(@, mod.modframe.and.can_id)]
      [] func = "mod_and_dlc"  -> [cf EXCEPT !.can_dlc = BitAnd(@, mod.modframe.and.can_dlc)]
      [] func = "mod_and_data" -> [cf EXCEPT !.data    = BitAnd(@, mod.modframe.and.data)]
      [] func = "mod_or_id"    -> [cf EXCEPT !.can_id  = BitOr(@, mod.modframe.or.can_id)]
      [] func = "mod_or_dlc"   -> [cf EXCEPT !.can_dlc = BitOr(@, mod.modframe.or.can_dlc)]
      [] func = "mod_or_data"  -> [cf EXCEPT !.data    = BitOr(@, mod.modframe.or.data)]
      [] func = "mod_xor_id"   -> [cf EXCEPT !.can_id  = BitXor(@, mod.modframe.xor.can_id)]
      [] func = "mod_xor_dlc"  -> [cf EXCEPT !.can_dlc = BitXor(@, mod.modframe.xor.can_dlc)]
      [] func = "mod_xor_data" -> [cf EXCEPT !.data    = BitXor(@, mod.modframe.xor.data)]
      [] func = "mod_set_id"   -> [cf EXCEPT !.can_id  = mod.modframe.set.can_id]
      [] func = "mod_set_dlc"  -> [cf EXCEPT !.can_dlc = mod.modframe.set.can_dlc]
      [] func = "mod_set_data" -> [cf EXCEPT !.data    = mod.modframe.set.data]

(***************************************************************************)
(* cgw_chk_csum_parms: 0 when the three indices lie in -8 .. 7.            *)
(***************************************************************************)
(* A variant that does not look at the result index. *)
cgw_chk_csum_parms_nore(fr, to, re) ==
    IF fr > -9 /\ fr < 8 /\ to > -9 /\ to < 8
    THEN "0" ELSE "-EINVAL"

cgw_chk_csum_parms(fr, to, re) ==
    IF fr > -9 /\ fr < 8 /\ to > -9 /\ to < 8 /\ re > -9 /\ re < 8
    THEN "0" ELSE "-EINVAL"

(***************************************************************************)
(* The checksum functions are empty in the source: they leave the frame.   *)
(***************************************************************************)
cgw_csum_do_xor(cf, xor) == cf

cgw_csum_do_crc8(cf, crc8) == cf

(***************************************************************************)
(* Netlink attributes of a request: tb[tag] is absent or has a payload     *)
(* length and a payload.                                                   *)
(***************************************************************************)
Tags == {"CGW_MOD_AND", "CGW_MOD_OR", "CGW_MOD_XOR", "CGW_MOD_SET",
         "CGW_CS_XOR", "CGW_CS_CRC8", "CGW_FILTER", "CGW_SRC_IF", "CGW_DST_IF"}

Present(tb, tag) == tag \in DOMAIN tb

nla_len(tb, tag) == tb[tag].len

(***************************************************************************)
(* struct cf_mod after memset(0) with both checksums disabled.             *)
(***************************************************************************)
CsumXorInit ==
    [from_idx |-> CGW_CS_DISABLED, to_idx |-> 0, result_idx |-> 0,
     init_xor_val |-> 0]

CsumCrc8Init ==
    [from_idx |-> CGW_CS_DISABLED, to_idx |-> 0, result_idx |-> 0,
     init_crc_val |-> 0, final_xor_val |-> 0, profile |-> 0]

ModInit ==
    [modframe |-> [and |-> ZeroFrame, or |-> ZeroFrame,
                   xor |-> ZeroFrame, set |-> ZeroFrame],
     modtype  |-> [and |-> 0, or |-> 0, xor |-> 0, set |-> 0],
     modfunc  |-> << >>,
     csum     |-> [xor |-> CsumXorInit, crc8 |-> CsumCrc8Init]]

CcgwInit == [filter |-> [can_id |-> 0, can_mask |-> 0], src_idx |-> 0, dst_idx |-> 0]

(***************************************************************************)
(* One of the four AND/OR/XOR/SET blocks of cgw_parse_attr: when the       *)
(* attribute is present with the right length, copy the frame and the      *)
(* modtype and append the functions the modtype bits select.               *)
(***************************************************************************)
ParseMod(mod, tb, tag, kind) ==
    IF Present(tb, tag) /\ nla_len(tb, tag) = CGW_MODATTR_LEN
    THEN LET mb == tb[tag].val
             f1 == IF BitAnd(mb.modtype, CGW_MOD_ID) # 0
                   THEN << "mod_" \o kind \o "_id" >> ELSE << >>
             f2 == IF BitAnd(mb.modtype, CGW_MOD_DLC) # 0
                   THEN << "mod_" \o kind \o "_dlc" >> ELSE << >>
             f3 == IF BitAnd(mb.modtype, CGW_MOD_DATA) # 0
                   THEN << "mod_" \o kind \o "_data" >> ELSE << >>
         IN  [mod EXCEPT !.modframe[kind] = canframecpy(mb.cf),
                         !.modtype[kind]  = mb.modtype,
                         !.modfunc        = @ \o f1 \o f2 \o f3]
    ELSE mod

(***************************************************************************)
(* The CGW_TYPE_CAN_CAN part of cgw_parse_attr.                            *)
(***************************************************************************)
ParseCcgw(tb) ==
    LET c0 == IF Present(tb, "CGW_FILTER") /\ nla_len(tb, "CGW_FILTER") = CAN_FILTER_LEN
              THEN [CcgwInit EXCEPT !.filter = tb["CGW_FILTER"].val]
              ELSE CcgwInit
    IN  IF ~Present(tb, "CGW_SRC_IF") \/ ~Present(tb, "CGW_DST_IF")
        THEN [err |-> "-ENODEV", ccgw |-> c0]
        ELSE LET c1 == IF nla_len(tb, "CGW_SRC_IF") = U32_LEN
                       THEN [c0 EXCEPT !.src_idx = tb["CGW_SRC_IF"].val] ELSE c0
                 c2 == IF nla_len(tb, "CGW_DST_IF") = U32_LEN
                       THEN [c1 EXCEPT !.dst_idx = tb["CGW_DST_IF"].val] ELSE c1
             IN  IF c2.src_idx = 0 /\ c2.dst_idx = 0
                 THEN [err |-> "0", ccgw |-> c2]
                 ELSE IF c2.src_idx = 0 \/ c2.dst_idx = 0
                 THEN [err |-> "-ENODEV", ccgw |-> c2]
                 ELSE [err |-> "0", ccgw |-> c2]

(***************************************************************************)
(* cgw_parse_attr: the parsed cf_mod and can_can_gw of a request and the   *)
(* error code.                                                             *)
(***************************************************************************)
cgw_parse_attr(nlh) ==
    LET tb == nlh.tb
        m1 == ParseMod(ModInit, tb, "CGW_MOD_AND", "and")
        m2 == ParseMod(m1, tb, "CGW_MOD_OR", "or")
        m3 == ParseMod(m2, tb, "CGW_MOD_XOR", "xor")
        m4 == ParseMod(m3, tb, "CGW_MOD_SET", "set")
        modidx == Len(m4.modfunc)
        doxor == modidx # 0 /\ Present(tb, "CGW_CS_XOR")
                   /\ nla_len(tb, "CGW_CS_XOR") = CGW_CS_XOR_LEN
        m5 == IF doxor THEN [m4 EXCEPT !.csum.xor = tb["CGW_CS_XOR"].val] ELSE m4
        errxor == IF doxor
                  THEN cgw_chk_csum_parms(m5.csum.xor.from_idx, m5.csum.xor.to_idx,
                                          m5.csum.xor.result_idx)
                  ELSE "0"
        docrc == modidx # 0 /\ Present(tb, "CGW_CS_CRC8")
                   /\ nla_len(tb, "CGW_CS_CRC8") = CGW_CS_CRC8_LEN
        m6 == IF docrc THEN [m5 EXCEPT !.csum.crc8 = tb["CGW_CS_CRC8"].val] ELSE m5
        errcrc == IF docrc
                  THEN cgw_chk_csum_parms(m6.csum.crc8.from_idx, m6.csum.crc8.to_idx,
                                          m6.csum.crc8.result_idx)
                  ELSE "0"
        cc == ParseCcgw(tb)
    IN  IF nlh.nlmsg_parse_err THEN [err |-> "-EINVAL", mod |-> ModInit, ccgw |-> CcgwInit]
        ELSE IF errxor # "0" THEN [err |-> errxor, mod |-> m5, ccgw |-> CcgwInit]
        ELSE IF errcrc # "0" THEN [err |-> errcrc, mod |-> m6, ccgw |-> CcgwInit]
        ELSE [err |-> cc.err, mod |-> m6, ccgw |-> cc.ccgw]

(***************************************************************************)
(* The requests the management channel sends (RTM_NEWROUTE, RTM_DELROUTE). *)
(***************************************************************************)
Attr(len, val) == [len |-> len, val |-> val]

Mb(modtype, id, dlc, data, pad) ==
    [modtype |-> modtype,
     cf |-> [can_id |-> id, can_dlc |-> dlc, pad |-> pad, data |-> data]]

Ifs(src, dst) ==
    ("CGW_SRC_IF" :> Attr(U32_LEN, src)) @@ ("CGW_DST_IF" :> Attr(U32_LEN, dst))

Nlh(flags, tb) ==
    [nlmsg_len_ok |-> TRUE, nlmsg_parse_err |-> FALSE, can_family |-> AF_CAN,
     gwtype |-> CGW_TYPE_CAN_CAN, flags |-> flags, tb |-> tb]

CsXor(fr, to, re, init) ==
    Attr(CGW_CS_XOR_LEN,
         [from_idx |-> fr, to_idx |-> to, result_idx |-> re, init_xor_val |-> init])

CsCrc8(fr, to, re) ==
    Attr(CGW_CS_CRC8_LEN,
         [from_idx |-> fr, to_idx |-> to, result_idx |-> re,
          init_crc_val |-> 0, final_xor_val |-> 0, profile |-> 0])

Requests ==
    << \* 1: plain route 1 -> 2
       Nlh(0, Ifs(1, 2)),
       \* 2: route 1 -> 1 with echo, a filter and an OR on the id
       Nlh(CGW_FLAGS_CAN_ECHO,
           Ifs(1, 1)
           @@ ("CGW_FILTER" :> Attr(CAN_FILTER_LEN, [can_id |-> 1, can_mask |-> 1]))
           @@ ("CGW_MOD_OR" :> Attr(CGW_MODATTR_LEN, Mb(CGW_MOD_ID, 2, 0, 0, 0)))),
       \* 3: route 2 -> 1 with a SET of the dlc and an XOR checksum
       Nlh(0,
           Ifs(2, 1)
           @@ ("CGW_MOD_SET" :> Attr(CGW_MODATTR_LEN, Mb(CGW_MOD_DLC, 0, 1, 0, 0)))
           @@ ("CGW_CS_XOR" :> CsXor(0, -1, 1, 0))),
       \* 4: both interface indices 0
       Nlh(0, Ifs(0, 0)),
       \* 5: both indices 0, an operator and a checksum index out of -8 .. 7
       Nlh(0,
           Ifs(0, 0)
           @@ ("CGW_MOD_AND" :> Attr(CGW_MODATTR_LEN, Mb(CGW_MOD_ID, 1, 0, 0, 0)))
           @@ ("CGW_CS_XOR" :> CsXor(9, 0, 0, 0))),
       \* 6: both indices 0 with flags, filter, operator and a valid checksum
       Nlh(CGW_FLAGS_CAN_SRC_TSTAMP,
           Ifs(0, 0)
           @@ ("CGW_FILTER" :> Attr(CAN_FILTER_LEN, [can_id |-> 1, can_mask |-> 1]))
           @@ ("CGW_MOD_XOR" :> Attr(CGW_MODATTR_LEN, Mb(CGW_MOD_DATA, 0, 0, 3, 0)))
           @@ ("CGW_CS_XOR" :> CsXor(0, 1, 2, 0))),
       \* 7: the source is not a CAN device
       Nlh(0, Ifs(3, 1)),
       \* 8: one index 0
       Nlh(0, Ifs(1, 0)),
       \* 9: route 1 -> 1 with echo, an OR on the data and an XOR checksum
       \*    of byte 0 into byte 1
       Nlh(CGW_FLAGS_CAN_ECHO,
           Ifs(1, 1)
           @@ ("CGW_MOD_OR" :> Attr(CGW_MODATTR_LEN, Mb(CGW_MOD_DATA, 0, 0, 2, 0)))
           @@ ("CGW_CS_XOR" :> CsXor(0, 0, 1, 1))),
       \* 10: route 1 -> 2 with an AND frame whose modtype selects nothing
       Nlh(0,
           Ifs(1, 2)
           @@ ("CGW_MOD_AND" :> Attr(CGW_MODATTR_LEN, Mb(0, 5, 0, 0, 0)))),
       \* 11: route 1 -> 2 with all four kinds and a valid CRC8 checksum
       Nlh(0,
           Ifs(1, 2)
           @@ ("CGW_MOD_SET" :> Attr(CGW_MODATTR_LEN, Mb(CGW_MOD_DATA, 7, 7, 9, 0)))
           @@ ("CGW_MOD_XOR" :> Attr(CGW_MODATTR_LEN,
                                     Mb(CGW_MOD_ID + CGW_MOD_DLC, 1, 3, 0, 0)))
           @@ ("CGW_MOD_OR" :> Attr(CGW_MODATTR_LEN, Mb(CGW_MOD_ID, 5, 0, 0, 0)))
           @@ ("CGW_MOD_AND" :> Attr(CGW_MODATTR_LEN,
                                     Mb(CGW_MOD_ID + CGW_MOD_DATA, 3, 0, 6, 0)))
           @@ ("CGW_CS_CRC8" :> CsCrc8(0, -1, 7))),
       \* 12: route 1 -> 2 with an operator and a CRC8 index out of -8 .. 7
       Nlh(0,
           Ifs(1, 2)
           @@ ("CGW_MOD_AND" :> Attr(CGW_MODATTR_LEN, Mb(CGW_MOD_ID, 1, 0, 0, 0)))
           @@ ("CGW_CS_CRC8" :> CsCrc8(0, 0, -9))),
       \* 13: route 1 -> 2 without operator, with an XOR index out of -8 .. 7
       Nlh(0, Ifs(1, 2) @@ ("CGW_CS_XOR" :> CsXor(9, 0, 0, 0))),
       \* 14: route 1 -> 2 with an AND attribute one byte short
       Nlh(0,
           Ifs(1, 2)
           @@ ("CGW_MOD_AND" :> Attr(CGW_MODATTR_LEN - 1, Mb(CGW_MOD_ID, 0, 0, 0, 0)))) >>

ReqIds == DOMAIN Requests

(* What cgw_parse_attr makes of each request. *)
Parsed == [i \in ReqIds |-> cgw_parse_attr(Requests[i])]

(***************************************************************************)
(* Network devices: ifindex 1 and 2 are CAN devices, 3 is not.             *)
(***************************************************************************)
DevIds == {1, 2, 3}

DevType(d) == IF d \in {1, 2} THEN ARPHRD_CAN ELSE "ARPHRD_ETHER"

CPUs == {1, 2}

JobIds == 1 .. MaxJobs

BusFrames ==
    { [can_id |-> 1, can_dlc |-> 2, data |-> 5],
      [can_id |-> 2, can_dlc |-> 0, data |-> 0] }

Events ==
    { <<NETDEV_UNREGISTER, 1>>, <<NETDEV_UNREGISTER, 2>>, <<NETDEV_UNREGISTER, 3>>,
      <<"NETDEV_DOWN", 2>>, <<"NETDEV_UP", 2>> }

HotEvents == { <<NETDEV_UNREGISTER, 1>>, <<"NETDEV_DOWN", 2>>, <<"NETDEV_UP", 2>> }

(***************************************************************************)
(* State.                                                                  *)
(***************************************************************************)
VARIABLES
    cgw_list,   \* the hlist of jobs: job ids, head first
    kmem,       \* the memory of every job: unused, a struct cgw_job, or freed
    rx,         \* the receive filters registered with can_rx_register
    netdev,     \* per device: registered, flags & IFF_UP
    cpu,        \* per core: the skb in can_rcv and the call of can_can_gw_rcv
    echo,       \* skbs sent with the loop flag, waiting for local delivery
    nframes,    \* frames taken from the bus so far
    cb,         \* the netlink dump callback state of the LIST in progress
    last,       \* the last operation and its return code
    create      \* the cgw_create_job that has its devices and not yet the lock

vars == << cgw_list, kmem, rx, netdev, cpu, echo, nframes, cb, last, create >>

NoCreate == [pc |-> "idle"]

NoJob == [state |-> "unused"]

FreedJob == [state |-> "freed"]

Live(j) == kmem[j].state = "alloc"

NoTx == [sent |-> FALSE]

NoSkb == [dev |-> 0]

CpuIdle == [pc |-> "idle", skb |-> NoSkb, rcv |-> {}, gwj |-> 0, tmp |-> 0, tx |-> NoTx]

CbIdle ==
    [active |-> FALSE, done |-> FALSE, args0 |-> 0, out |-> << >>, start |-> {},
     started |-> 0]

Init ==
    /\ cgw_list = << >>
    /\ kmem = [j \in JobIds |-> NoJob]
    /\ rx = {}
    /\ netdev = [d \in DevIds |-> [registered |-> TRUE, up |-> TRUE]]
    /\ cpu = [c \in CPUs |-> CpuIdle]
    /\ echo = {}
    /\ nframes = 0
    /\ cb = CbIdle
    /\ last = [op |-> "none", arg |-> 0, err |-> "0", seq |-> 0]
    /\ create = NoCreate

(***************************************************************************)
(* The record of a finished management operation; seq flips with each one. *)
(***************************************************************************)
Done(op, arg, err) == [op |-> op, arg |-> arg, err |-> err, seq |-> 1 - last.seq]

(***************************************************************************)
(* Helpers on the list.                                                    *)
(***************************************************************************)
InList(l) == { l[k] : k \in DOMAIN l }

(* A variant that appends at the tail, as hlist_add_tail would. *)
hlist_add_tail(l, j) == l \o << j >>

hlist_add_head_rcu(l, j) == << j >> \o l

kfree(mem, j) == [mem EXCEPT ![j] = FreedJob]

(***************************************************************************)
(* cgw_register_filter / cgw_unregister_filter: the receiver entry that    *)
(* can_rx_register adds and can_rx_unregister removes.                     *)
(***************************************************************************)
(* Variants that use the destination device. *)
cgw_register_filter_dst(j, gwj) ==
    [dev |-> gwj.dst_dev, can_id |-> gwj.ccgw.filter.can_id,
     can_mask |-> gwj.ccgw.filter.can_mask, data |-> j]

cgw_unregister_filter_dst(j, gwj) ==
    [dev |-> gwj.dst_dev, can_id |-> gwj.ccgw.filter.can_id,
     can_mask |-> gwj.ccgw.filter.can_mask, data |-> j]

cgw_register_filter(j, gwj) ==
    [dev |-> gwj.src_dev, can_id |-> gwj.ccgw.filter.can_id,
     can_mask |-> gwj.ccgw.filter.can_mask, data |-> j]

cgw_unregister_filter(j, gwj) ==
    [dev |-> gwj.src_dev, can_id |-> gwj.ccgw.filter.can_id,
     can_mask |-> gwj.ccgw.filter.can_mask, data |-> j]

(***************************************************************************)
(* dev_get_by_index: the device of an ifindex, when it is registered.      *)
(***************************************************************************)
dev_get_by_index(idx) == idx \in DevIds /\ netdev[idx].registered

(***************************************************************************)
(* cgw_create_job of request i: nlh is the message, p what cgw_parse_attr  *)
(* made of it, alloc_ok the outcome of kmem_cache_alloc, reg_err the       *)
(* return code of can_rx_register.                                         *)
(***************************************************************************)
(* A variant that answers index 0 with -EINVAL. *)
CreateErr_einval(nlh, p, alloc_ok, reg_err) ==
        IF ~nlh.nlmsg_len_ok THEN "-EINVAL"
        ELSE IF nlh.can_family # AF_CAN THEN "-EPFNOSUPPORT"
        ELSE IF nlh.gwtype # CGW_TYPE_CAN_CAN THEN "-EINVAL"
        ELSE IF ~alloc_ok THEN "-ENOMEM"
        ELSE IF p.err # "0" THEN p.err
        ELSE IF p.ccgw.src_idx = 0 \/ p.ccgw.dst_idx = 0 THEN "-EINVAL"
        ELSE IF ~dev_get_by_index(p.ccgw.src_idx) THEN "-ENODEV"
        ELSE IF DevType(p.ccgw.src_idx) # ARPHRD_CAN THEN "-ENODEV"
        ELSE IF ~dev_get_by_index(p.ccgw.dst_idx) THEN "-ENODEV"
        ELSE IF DevType(p.ccgw.dst_idx) # ARPHRD_CAN THEN "-ENODEV"
        ELSE reg_err

CreateErr(nlh, p, alloc_ok, reg_err) ==
        IF ~nlh.nlmsg_len_ok THEN "-EINVAL"
        ELSE IF nlh.can_family # AF_CAN THEN "-EPFNOSUPPORT"
        ELSE IF nlh.gwtype # CGW_TYPE_CAN_CAN THEN "-EINVAL"
        ELSE IF ~alloc_ok THEN "-ENOMEM"
        ELSE IF p.err # "0" THEN p.err
        ELSE IF p.ccgw.src_idx = 0 \/ p.ccgw.dst_idx = 0 THEN "-ENODEV"
        ELSE IF ~dev_get_by_index(p.ccgw.src_idx) THEN "-ENODEV"
        ELSE IF DevType(p.ccgw.src_idx) # ARPHRD_CAN THEN "-ENODEV"
        ELSE IF ~dev_get_by_index(p.ccgw.dst_idx) THEN "-ENODEV"
        ELSE IF DevType(p.ccgw.dst_idx) # ARPHRD_CAN THEN "-ENODEV"
        ELSE reg_err

NewJob(nlh, p) ==
        [state |-> "alloc", handled_frames |-> 0, dropped_frames |-> 0,
         mod |-> p.mod, src_dev |-> p.ccgw.src_idx, dst_dev |-> p.ccgw.dst_idx,
         ccgw |-> p.ccgw, gwtype |-> nlh.gwtype, flags |-> nlh.flags]

FreshJobs == { j \in JobIds : kmem[j].state = "unused" }

cgw_create_job(i, nlh, p, alloc_ok, reg_err) ==
    LET err == CreateErr(nlh, p, alloc_ok, reg_err)
    IN  /\ FreshJobs # {}
        /\ last' = Done("ADD", i, err)
        /\ IF err = "0"
           THEN LET j == CHOOSE x \in FreshJobs : \A y \in FreshJobs : x <= y
                    gwj == NewJob(nlh, p)
                IN  /\ kmem' = [kmem EXCEPT ![j] = gwj]
                    /\ rx' = rx \cup { cgw_register_filter(j, gwj) }
                    /\ cgw_list' = hlist_add_head_rcu(cgw_list, j)
           ELSE UNCHANGED << kmem, rx, cgw_list >>
        /\ UNCHANGED << netdev, cpu, echo, nframes, cb, create >>

(***************************************************************************)
(* cgw_create_job in its two parts: up to the second dev_get_by_index and  *)
(* its type check, where it returns the errors found so far or goes on     *)
(* with both devices held, and from spin_lock to the return.               *)
(***************************************************************************)
cgw_create_job_resolve(i, nlh, p, alloc_ok) ==
    LET err == CreateErr(nlh, p, alloc_ok, "0")
    IN  /\ create.pc = "idle"
        /\ FreshJobs # {}
        /\ IF err = "0"
           THEN create' = [pc |-> "resolved", i |-> i] /\ UNCHANGED last
           ELSE last' = Done("ADD", i, err) /\ UNCHANGED create
        /\ UNCHANGED << cgw_list, kmem, rx, netdev, cpu, echo, nframes, cb >>

cgw_create_job_insert(nlh, p, reg_err) ==
    /\ create.pc = "resolved"
    /\ last' = Done("ADD", create.i, reg_err)
    /\ create' = NoCreate
    /\ IF reg_err = "0"
       THEN LET j == CHOOSE x \in FreshJobs : \A y \in FreshJobs : x <= y
                gwj == NewJob(nlh, p)
            IN  /\ kmem' = [kmem EXCEPT ![j] = gwj]
                /\ rx' = rx \cup { cgw_register_filter(j, gwj) }
                /\ cgw_list' = hlist_add_head_rcu(cgw_list, j)
       ELSE UNCHANGED << kmem, rx, cgw_list >>
    /\ UNCHANGED << netdev, cpu, echo, nframes, cb >>

(***************************************************************************)
(* cgw_create_job is registered as an rtnetlink doit handler and           *)
(* cgw_notifier as a netdevice notifier: both are called with the rtnl     *)
(* mutex held, so no notifier runs while a cgw_create_job is under way.    *)
(***************************************************************************)
(* A variant without the mutex. *)
rtnl_held_never == FALSE

rtnl_held == create.pc # "idle"

(***************************************************************************)
(* The loop body shared by the three removals: unlink, unregister, kfree.  *)
(* Removing the jobs of the set js from the list l.                        *)
(***************************************************************************)
RemoveJobs(js) ==
    /\ cgw_list' = SelectSeq(cgw_list, LAMBDA x : x \notin js)
    /\ rx' = rx \ { cgw_unregister_filter(j, kmem[j]) : j \in js }
    /\ kmem' = [j \in JobIds |-> IF j \in js THEN kfree(kmem, j)[j] ELSE kmem[j]]

(* A variant that stops after the first entry. *)
cgw_remove_all_jobs_first ==
    RemoveJobs(IF cgw_list = << >> THEN {} ELSE { cgw_list[1] })

(***************************************************************************)
(* cgw_remove_all_jobs: every job of the list.                             *)
(***************************************************************************)
cgw_remove_all_jobs == RemoveJobs(InList(cgw_list))

(***************************************************************************)
(* cgw_remove_job: the comparison of the loop and the entry it selects,    *)
(* the first one from the head of the list that matches.                   *)
(***************************************************************************)
(* A variant of the comparison that leaves out the memcmp of ccgw. *)
JobMatches_noccgw(gwj, nlh, p) ==
    /\ gwj.flags = nlh.flags
    /\ gwj.mod = p.mod

JobMatches(gwj, nlh, p) ==
    /\ gwj.flags = nlh.flags
    /\ gwj.mod = p.mod
    /\ gwj.ccgw = p.ccgw

MatchPos(nlh, p) ==
    { k \in DOMAIN cgw_list : JobMatches(kmem[cgw_list[k]], nlh, p) }

FirstMatch(ks) == CHOOSE k \in ks : \A m \in ks : k <= m

RemoveErr(nlh, p) ==
        IF ~nlh.nlmsg_len_ok THEN "-EINVAL"
        ELSE IF nlh.can_family # AF_CAN THEN "-EPFNOSUPPORT"
        ELSE IF nlh.gwtype # CGW_TYPE_CAN_CAN THEN "-EINVAL"
        ELSE IF p.err # "0" THEN p.err
        ELSE IF p.ccgw.src_idx = 0 /\ p.ccgw.dst_idx = 0 THEN "0"
        ELSE IF MatchPos(nlh, p) = {} THEN "-EINVAL"
        ELSE "0"

(* A variant of the loop without its break: every match is removed. *)
RemoveSet_nobreak(nlh, p) ==
    IF RemoveErr(nlh, p) # "0" THEN {}
    ELSE IF p.ccgw.src_idx = 0 /\ p.ccgw.dst_idx = 0 THEN InList(cgw_list)
    ELSE { cgw_list[k] : k \in MatchPos(nlh, p) }

RemoveSet(nlh, p) ==
    IF RemoveErr(nlh, p) # "0" THEN {}
    ELSE IF p.ccgw.src_idx = 0 /\ p.ccgw.dst_idx = 0 THEN InList(cgw_list)
    ELSE { cgw_list[FirstMatch(MatchPos(nlh, p))] }

cgw_remove_job(i, nlh, p) ==
    LET err == RemoveErr(nlh, p)
    IN  /\ last' = Done("DEL", i, err)
        /\ IF err # "0"
           THEN UNCHANGED << cgw_list, rx, kmem >>
           ELSE IF p.ccgw.src_idx = 0 /\ p.ccgw.dst_idx = 0
           THEN cgw_remove_all_jobs
           ELSE RemoveJobs(RemoveSet(nlh, p))
        /\ UNCHANGED << netdev, cpu, echo, nframes, cb, create >>

(***************************************************************************)
(* cgw_notifier, called with the event msg of device dev.  The device      *)
(* itself changes as the event says.                                       *)
(***************************************************************************)
(* A variant that looks at the source device only. *)
NotifierSet_src(msg, dev) ==
    IF DevType(dev) # ARPHRD_CAN THEN {}
    ELSE IF msg # NETDEV_UNREGISTER THEN {}
    ELSE { j \in InList(cgw_list) : kmem[j].src_dev = dev }

NotifierSet(msg, dev) ==
    IF DevType(dev) # ARPHRD_CAN THEN {}
    ELSE IF msg # NETDEV_UNREGISTER THEN {}
    ELSE { j \in InList(cgw_list) : kmem[j].src_dev = dev \/ kmem[j].dst_dev = dev }

cgw_notifier(msg, dev) ==
    /\ netdev[dev].registered
    /\ msg = "NETDEV_UP" => ~netdev[dev].up
    /\ msg = "NETDEV_DOWN" => netdev[dev].up
    /\ netdev' = [netdev EXCEPT ![dev] =
                    CASE msg = NETDEV_UNREGISTER -> [registered |-> FALSE, up |-> FALSE]
                      [] msg = "NETDEV_UP" -> [@ EXCEPT !.up = TRUE]
                      [] msg = "NETDEV_DOWN" -> [@ EXCEPT !.up = FALSE]]
    /\ RemoveJobs(NotifierSet(msg, dev))
    /\ last' = Done(msg, dev, "0")
    /\ UNCHANGED << cpu, echo, nframes, cb, create >>

(***************************************************************************)
(* The frame substrate: can_rcv hands an skb received on a device to every *)
(* receiver registered on it whose filter admits the frame, one call after *)
(* the other; the receivers are those found on entry (an RCU read side).   *)
(***************************************************************************)
CGW_SK_MAGIC == "CGW_SK_MAGIC"

Admits(f, cf) == BitAnd(cf.can_id, f.can_mask) = BitAnd(f.can_id, f.can_mask)

Receivers(skb) == { f.data : f \in { g \in rx : g.dev = skb.dev /\ Admits(g, skb.cf) } }

BusSkb(dev, cf) == [dev |-> dev, cf |-> cf, sk |-> "NULL", tstamp |-> 1, hops |-> 0]

can_rcv(c, skb, from_echo) ==
    /\ cpu[c].pc = "idle"
    /\ netdev[skb.dev].registered
    /\ Receivers(skb) # {}
    /\ IF from_echo
       THEN /\ skb \in echo
            /\ skb.hops <= MaxHops
            /\ echo' = echo \ {skb}
            /\ UNCHANGED nframes
       ELSE /\ nframes < MaxFrames
            /\ nframes' = nframes + 1
            /\ UNCHANGED echo
    /\ cpu' = [cpu EXCEPT ![c] = [CpuIdle EXCEPT !.pc = "deliver", !.skb = skb,
                                                 !.rcv = Receivers(skb)]]
    /\ UNCHANGED << cgw_list, kmem, rx, netdev, cb, last, create >>

(***************************************************************************)
(* can_rcv calls the next receiver: can_can_gw_rcv(skb, gwj) is entered.   *)
(***************************************************************************)
CallRcv(c, j) ==
    /\ cpu[c].pc = "deliver"
    /\ j \in cpu[c].rcv
    /\ cpu' = [cpu EXCEPT ![c].pc = "entry", ![c].gwj = j, ![c].rcv = @ \ {j},
                          ![c].tx = NoTx, ![c].tmp = 0]
    /\ UNCHANGED << cgw_list, kmem, rx, netdev, echo, nframes, cb, last, create >>

(***************************************************************************)
(* can_can_gw_rcv up to its counter update.                                *)
(***************************************************************************)
RECURSIVE ApplyMods(_, _, _)
ApplyMods(mod, cf, modidx) ==
    IF modidx < MAX_MODFUNCTIONS /\ modidx < Len(mod.modfunc)
    THEN ApplyMods(mod, MODFUNC(mod.modfunc[modidx + 1], cf, mod), modidx + 1)
    ELSE cf

ModCount(mod) ==
    IF Len(mod.modfunc) < MAX_MODFUNCTIONS THEN Len(mod.modfunc) ELSE MAX_MODFUNCTIONS

Forwarded(skb, gwj) ==
    LET cf1 == ApplyMods(gwj.mod, skb.cf, 0)
        cf2 == IF ModCount(gwj.mod) # 0 /\ gwj.mod.csum.xor.from_idx # CGW_CS_DISABLED
               THEN cgw_csum_do_xor(cf1, gwj.mod.csum.xor) ELSE cf1
        cf3 == IF ModCount(gwj.mod) # 0 /\ gwj.mod.csum.crc8.from_idx # CGW_CS_DISABLED
               THEN cgw_csum_do_crc8(cf2, gwj.mod.csum.crc8) ELSE cf2
    IN  [dev |-> gwj.dst_dev, cf |-> cf3, sk |-> CGW_SK_MAGIC,
         tstamp |-> IF BitAnd(gwj.flags, CGW_FLAGS_CAN_SRC_TSTAMP) = 0
                    THEN 0 ELSE skb.tstamp,
         hops |-> skb.hops + 1]

(* A variant without the check of the marker. *)
AlreadyRouted_never(skb) == FALSE

AlreadyRouted(skb) == skb.sk = CGW_SK_MAGIC

(* A variant that always takes skb_clone. *)
Copied_never(gwj) == FALSE

(* skb_copy when there is a modification function, skb_clone otherwise. *)
Copied(gwj) == Len(gwj.mod.modfunc) # 0

(* The data of a clone is the data of the skb it was cloned from: what   *)
(* can_can_gw_rcv wrote to the frame of the clone is in the skb as well. *)
SharedData(skb, tx) ==
    IF tx.sent /\ ~tx.copied THEN [skb EXCEPT !.cf = tx.nskb.cf] ELSE skb

(* A variant without the test of IFF_UP. *)
RcvOutcome_noup(skb, gwj, dst_up, alloc_ok, send_ok) ==
    IF AlreadyRouted(skb) THEN [next |-> "ret", tx |-> NoTx]
    ELSE IF ~alloc_ok THEN [next |-> "drop", tx |-> NoTx]
    ELSE [next |-> IF send_ok THEN "hand" ELSE "drop",
          tx |-> [sent |-> TRUE, nskb |-> Forwarded(skb, gwj),
                  copied |-> Copied(gwj),
                  loop |-> BitAnd(gwj.flags, CGW_FLAGS_CAN_ECHO), ok |-> send_ok]]

RcvOutcome(skb, gwj, dst_up, alloc_ok, send_ok) ==
    IF AlreadyRouted(skb) THEN [next |-> "ret", tx |-> NoTx]
    ELSE IF ~dst_up THEN [next |-> "drop", tx |-> NoTx]
    ELSE IF ~alloc_ok THEN [next |-> "drop", tx |-> NoTx]
    ELSE [next |-> IF send_ok THEN "hand" ELSE "drop",
          tx |-> [sent |-> TRUE, nskb |-> Forwarded(skb, gwj),
                  copied |-> Copied(gwj),
                  loop |-> BitAnd(gwj.flags, CGW_FLAGS_CAN_ECHO), ok |-> send_ok]]

Return(r) ==
    IF r.rcv = {} THEN CpuIdle
    ELSE [r EXCEPT !.pc = "deliver", !.gwj = 0, !.tmp = 0]

(* What a read of a freed struct cgw_job may find: the job of a request. *)
JobsOf(nlh) == { NewJob(nlh, p) : p \in { cgw_parse_attr(nlh) } }

Garbage == UNION { JobsOf(nlh) : nlh \in { Requests[i] : i \in {1, 2, 3} } }

(* The struct cgw_job that the reads of an invocation on job j find. *)
ReadJob(j) == IF Live(j) THEN { kmem[j] } ELSE Garbage

can_can_gw_rcv(c, gwj, up, alloc_ok, send_ok) ==
    LET j == cpu[c].gwj
        dst_up == IF Live(j) /\ netdev[gwj.dst_dev].registered
                  THEN netdev[gwj.dst_dev].up ELSE up
        o == RcvOutcome(cpu[c].skb, gwj, dst_up, alloc_ok, send_ok)
    IN  /\ cpu[c].pc = "entry"
        /\ j \in JobIds
        /\ (Live(j) /\ netdev[gwj.dst_dev].registered) => up
        /\ cpu' = [cpu EXCEPT ![c] =
                     IF o.next = "ret" THEN Return(@)
                     ELSE [@ EXCEPT !.pc = o.next \o "_ld", !.tx = o.tx,
                                    !.skb = SharedData(@, o.tx)]]
        /\ echo' = IF o.tx.sent /\ o.tx.ok /\ o.tx.loop # 0
                   THEN echo \cup {o.tx.nskb} ELSE echo
        /\ UNCHANGED << cgw_list, kmem, rx, netdev, nframes, cb, last, create >>

(***************************************************************************)
(* gwj->dropped_frames++ and gwj->handled_frames++: a plain read of the    *)
(* counter and a plain write of the value read plus one.                   *)
(***************************************************************************)
(* A variant that counts every frame as handled. *)
Counter_handled(pc) == "handled_frames"

Counter(pc) == IF pc \in {"drop_ld", "drop_st"} THEN "dropped_frames" ELSE "handled_frames"

CounterLoad(c) ==
    LET j == cpu[c].gwj
    IN  /\ cpu[c].pc \in {"drop_ld", "hand_ld"}
        /\ cpu' = [cpu EXCEPT ![c].tmp = IF Live(j) THEN kmem[j][Counter(cpu[c].pc)] ELSE 0,
                              ![c].pc = IF @ = "drop_ld" THEN "drop_st" ELSE "hand_st"]
        /\ UNCHANGED << cgw_list, kmem, rx, netdev, echo, nframes, cb, last, create >>

CounterStore(c) ==
    LET j == cpu[c].gwj
    IN  /\ cpu[c].pc \in {"drop_st", "hand_st"}
        /\ kmem' = IF Live(j)
                   THEN [kmem EXCEPT ![j][Counter(cpu[c].pc)] = cpu[c].tmp + 1]
                   ELSE kmem
        /\ cpu' = [cpu EXCEPT ![c] = Return(@)]
        /\ UNCHANGED << cgw_list, rx, netdev, echo, nframes, cb, last, create >>

(***************************************************************************)
(* cgw_dump_jobs: one call of the dump callback; room is the number of     *)
(* jobs that fit into the skb of this call.  The dump ends with the call   *)
(* that puts nothing.                                                      *)
(***************************************************************************)
DumpStart ==
    /\ ~cb.active
    /\ cb.started < MaxDumps
    /\ cb' = [CbIdle EXCEPT !.active = TRUE, !.start = InList(cgw_list),
                            !.started = cb.started + 1]
    /\ UNCHANGED << cgw_list, kmem, rx, netdev, cpu, echo, nframes, last, create >>

DumpIdx(s_idx, room) ==
    IF s_idx + room < Len(cgw_list) THEN s_idx + room ELSE Len(cgw_list)

cgw_dump_jobs(room) ==
    LET s_idx == cb.args0
        idx == DumpIdx(s_idx, room)
        put == IF idx > s_idx THEN SubSeq(cgw_list, s_idx + 1, idx) ELSE << >>
    IN  /\ cb.active
        /\ cb' = [cb EXCEPT !.args0 = idx, !.out = @ \o put,
                            !.active = put # << >>, !.done = put = << >>]
        /\ UNCHANGED << cgw_list, kmem, rx, netdev, cpu, echo, nframes, last, create >>

(***************************************************************************)
(* The management operations over the requests of the set R, the events E  *)
(* of the notifier, the hot path on the cores C and the LIST.              *)
(***************************************************************************)
Add(R) ==
    \E i \in R : \E nlh \in { Requests[i] } : \E p \in { cgw_parse_attr(nlh) } :
        \E a \in BOOLEAN, e \in {"0", "-ENOMEM"} : cgw_create_job(i, nlh, p, a, e)

Allocated == Cardinality(JobIds \ FreshJobs)

Del(R) ==
    \E i \in R : \E nlh \in { Requests[i] } : \E p \in { cgw_parse_attr(nlh) } :
        cgw_remove_job(i, nlh, p)

Notify(E) == \E ev \in E : cgw_notifier(ev[1], ev[2])

Hot(C) ==
    \/ \E c \in C, d \in {1, 2}, cf \in BusFrames : can_rcv(c, BusSkb(d, cf), FALSE)
    \/ \E c \in C, skb \in echo : can_rcv(c, skb, TRUE)
    \/ \E c \in C, j \in JobIds : CallRcv(c, j)
    \/ \E c \in C :
          /\ cpu[c].pc = "entry"
          /\ \E gwj \in ReadJob(cpu[c].gwj), up, a, ok \in BOOLEAN :
                can_can_gw_rcv(c, gwj, up, a, ok)
    \/ \E c \in C : CounterLoad(c)
    \/ \E c \in C : CounterStore(c)

Dump ==
    \/ DumpStart
    \/ \E room \in 1 .. MaxRoom : cgw_dump_jobs(room)

(* The management channel and the notifier. *)
MgmtReqs == 1 .. 8

NextMgmt == Add(MgmtReqs) \/ Del(MgmtReqs) \/ Notify(Events)

SpecMgmt == Init /\ [][NextMgmt]_vars

(* The LIST running against ADD, DEL and the notifier. *)
DumpReqs == {1, 2}

NextDump == Add(DumpReqs) \/ Del(DumpReqs) \/ Notify({<<NETDEV_UNREGISTER, 2>>}) \/ Dump

SpecDump == Init /\ [][NextDump]_vars

(* The hot path of one core running against ADD, DEL and the notifier. *)
HotReqs == {1, 2, 4}

NextHot ==
    \/ Allocated < HotJobs /\ Add(HotReqs)
    \/ Del(HotReqs)
    \/ Notify(HotEvents)
    \/ Hot({1})

SpecHot == Init /\ [][NextHot]_vars

(* The hot path of two cores on one job. *)
RaceReqs == {1, 2}

NextRace == (Allocated < RaceJobs /\ Add(RaceReqs)) \/ Hot(CPUs)

SpecRace == Init /\ [][NextRace]_vars

(* The management channel on the requests that exercise the parser. *)
CodecReqs == {1, 3, 5} \cup (10 .. 14)

NextCodec == Add(CodecReqs) \/ Del(CodecReqs) \/ Notify({<<NETDEV_UNREGISTER, 2>>})

SpecCodec == Init /\ [][NextCodec]_vars

(* The hot path of one core on jobs that stay, with device 2 going down and up. *)
FwdReqs == {1, 9, 11}

FwdEvents == { <<"NETDEV_DOWN", 2>>, <<"NETDEV_UP", 2>> }

NextFwd == (Allocated < FwdJobs /\ Add(FwdReqs)) \/ Notify(FwdEvents) \/ Hot({1})

SpecFwd == Init /\ [][NextFwd]_vars

(* ADD in its two parts against the devices going away. *)
AddRaceReqs == {1, 2, 3}

AddRaceEvents == { <<NETDEV_UNREGISTER, 1>>, <<NETDEV_UNREGISTER, 2>> }

AddResolve(R) ==
    \E i \in R : \E nlh \in { Requests[i] } : \E p \in { cgw_parse_attr(nlh) } :
        \E a \in BOOLEAN : cgw_create_job_resolve(i, nlh, p, a)

AddInsert ==
    /\ create.pc = "resolved"
    /\ \E nlh \in { Requests[create.i] } : \E p \in { cgw_parse_attr(nlh) } :
          \E e \in {"0", "-ENOMEM"} : cgw_create_job_insert(nlh, p, e)

NextAddRace ==
    \/ AddResolve(AddRaceReqs)
    \/ AddInsert
    \/ ~rtnl_held /\ Notify(AddRaceEvents)

SpecAddRace == Init /\ [][NextAddRace]_vars

(***************************************************************************)
(* Helpers of the properties.                                              *)
(***************************************************************************)
MgmtStep(op) == last'.seq # last.seq /\ last'.op = op

Removed == InList(cgw_list) \ InList(cgw_list')

InRcv(c) == cpu[c].pc \in {"entry", "drop_ld", "drop_st", "hand_ld", "hand_st"}

Freed == { j \in JobIds : kmem[j] = FreedJob }

Matches(i) == { cgw_list[k] : k \in MatchPos(Requests[i], Parsed[i]) }

Oldest(js) == CHOOSE j \in js : \A x \in js : j <= x

Newest(js) == CHOOSE j \in js : \A x \in js : j >= x

SrcDstZero(nlh) ==
    /\ Present(nlh.tb, "CGW_SRC_IF") /\ nlh.tb["CGW_SRC_IF"].val = 0
    /\ Present(nlh.tb, "CGW_DST_IF") /\ nlh.tb["CGW_DST_IF"].val = 0

Count(seq, x) == Cardinality({ k \in DOMAIN seq : seq[k] = x })

(***************************************************************************)
(* C1: no invocation of can_can_gw_rcv is executing on a job whose memory  *)
(* has been freed: a removed job is freed only after the invocations that  *)
(* started on it have returned.                                            *)
(***************************************************************************)
C1_NoRcvOnFreedJob ==
    \A c \in CPUs : InRcv(c) => kmem[cpu[c].gwj] # FreedJob

(***************************************************************************)
(* C2: a finished LIST enumeration has reported every job that was in the  *)
(* list from its start to its end exactly once and no job twice.           *)
(***************************************************************************)
C2_DumpExactlyOnce ==
    cb.done =>
        /\ \A j \in cb.start \cap InList(cgw_list) : Count(cb.out, j) = 1
        /\ \A j \in JobIds : Count(cb.out, j) <= 1

(***************************************************************************)
(* C3: a DEL that matches several jobs removes the one added first.        *)
(***************************************************************************)
C3_DelRemovesOldestMatch ==
    [][ \A i \in ReqIds :
          (MgmtStep("DEL") /\ last'.arg = i /\ last'.err = "0"
             /\ ~SrcDstZero(Requests[i]))
          => Removed = { Oldest(Matches(i)) } ]_vars

(***************************************************************************)
(* C3 as amended: a DEL that matches several jobs removes the one added    *)
(* last (the list is scanned from its head, where ADD inserts); all the    *)
(* matches added earlier stay.                                             *)
(***************************************************************************)
C3_DelRemovesNewestMatch ==
    [][ \A i \in ReqIds :
          (MgmtStep("DEL") /\ last'.arg = i /\ last'.err = "0"
             /\ ~SrcDstZero(Requests[i]))
          => /\ Removed = { Newest(Matches(i)) }
             /\ Matches(i) \ Removed \subseteq InList(cgw_list') ]_vars

C3_Witness ==
    /\ last.op = "DEL" /\ last.err = "0" /\ ~SrcDstZero(Requests[last.arg])
    /\ \E j1 \in Matches(last.arg), j2 \in Freed : j1 < j2

(***************************************************************************)
(* C4: ADD does not reject a valid request because an identical job is     *)
(* installed: it fails only for lack of memory, and when it succeeds the   *)
(* list grows by the new job with a filter of its own; a DEL that is not   *)
(* a flush and succeeds removes exactly one job and leaves every other job *)
(* in the list, with its filter and its counters.                          *)
(***************************************************************************)
ValidAdd(i) ==
    LET p == Parsed[i]
    IN  /\ p.err = "0"
        /\ \A d \in {p.ccgw.src_idx, p.ccgw.dst_idx} :
              d \in DevIds /\ netdev[d].registered /\ DevType(d) = ARPHRD_CAN

C4_DuplicatesCoexist ==
    [][ \A i \in ReqIds :
          /\ (MgmtStep("ADD") /\ last'.arg = i /\ ValidAdd(i))
             => /\ last'.err \in {"0", "-ENOMEM"}
                /\ last'.err = "0" =>
                     /\ Len(cgw_list') = Len(cgw_list) + 1
                     /\ Cardinality(rx') = Cardinality(rx) + 1
                     /\ Cardinality(Matches(i)') =
                          Cardinality(Matches(i)) + 1
          /\ (MgmtStep("DEL") /\ last'.arg = i /\ last'.err = "0"
                /\ ~SrcDstZero(Requests[i]))
             => /\ Len(cgw_list') = Len(cgw_list) - 1
                /\ Cardinality(Removed) = 1
                /\ \A j \in InList(cgw_list) \ Removed :
                     /\ j \in InList(cgw_list')
                     /\ kmem'[j] = kmem[j]
                     /\ cgw_register_filter(j, kmem[j]) \in rx' ]_vars

C4_Witness ==
    /\ last.op = "DEL" /\ last.err = "0" /\ ~SrcDstZero(Requests[last.arg])
    /\ Matches(last.arg) # {}
    /\ Freed # {}
    /\ \E j \in InList(cgw_list) : kmem[j].handled_frames > 0

(***************************************************************************)
(* C5: an skb that carries the marker of the gateway makes can_can_gw_rcv  *)
(* return without a send and without a change of any counter; an skb       *)
(* without it is sent at most once, marked; so no frame is forwarded more  *)
(* than once.                                                              *)
(***************************************************************************)
C5_LoopSuppression ==
    [][ /\ \A skb \in echo' : skb.hops = 1 /\ skb.sk = CGW_SK_MAGIC
        /\ \A c \in CPUs :
             (cpu[c].pc = "entry" /\ cpu'[c] # cpu[c])
             => IF cpu[c].skb.sk = CGW_SK_MAGIC
                THEN /\ cpu'[c].pc \in {"idle", "deliver"}
                     /\ echo' = echo
                     /\ kmem' = kmem
                ELSE /\ cpu'[c].pc \in {"drop_ld", "hand_ld"}
                     /\ cpu'[c].pc = "hand_ld" =>
                          /\ cpu'[c].tx.sent /\ cpu'[c].tx.ok
                          /\ cpu'[c].tx.nskb.sk = CGW_SK_MAGIC
                          /\ cpu'[c].tx.nskb.hops = 1 ]_vars

C5_Witness ==
    \E c \in CPUs :
        /\ cpu[c].pc = "entry"
        /\ cpu[c].skb.sk = CGW_SK_MAGIC
        /\ Live(cpu[c].gwj)
        /\ kmem[cpu[c].gwj].src_dev = kmem[cpu[c].gwj].dst_dev
        /\ kmem[cpu[c].gwj].handled_frames = 1

(***************************************************************************)
(* C6: the registered receive filters are those of the jobs in the list:   *)
(* every job in the list is allocated, is in the list once and has its     *)
(* filter (its id and mask, on its source device, with itself as data)     *)
(* registered, and there is no other filter.                               *)
(***************************************************************************)
C6_FiltersAreRegistry ==
    /\ \A j \in InList(cgw_list) : Live(j) /\ Count(cgw_list, j) = 1
    /\ rx = { [dev |-> kmem[j].src_dev, can_id |-> kmem[j].ccgw.filter.can_id,
               can_mask |-> kmem[j].ccgw.filter.can_mask, data |-> j] :
              j \in InList(cgw_list) }

C6_Witness ==
    /\ last.op = "ADD" /\ last.err = "-ENOMEM"
    /\ Len(cgw_list) = 2
    /\ Cardinality(rx) = 2

(***************************************************************************)
(* C7: a frame that arrives on a device is handed to exactly the jobs that *)
(* are in the list at that time, have the device as source and admit the   *)
(* frame: to every such job from its ADD on, and to no job removed before. *)
(***************************************************************************)
C7_DeliveredToRegistry ==
    [][ \A c \in CPUs :
          (cpu[c].pc = "idle" /\ cpu'[c].pc = "deliver")
          => cpu'[c].rcv =
               { j \in InList(cgw_list) :
                   /\ kmem[j].src_dev = cpu'[c].skb.dev
                   /\ BitAnd(cpu'[c].skb.cf.can_id, kmem[j].ccgw.filter.can_mask)
                        = BitAnd(kmem[j].ccgw.filter.can_id,
                                 kmem[j].ccgw.filter.can_mask) } ]_vars

C7_Witness ==
    /\ last.op = "DEL" /\ last.err = "0"
    /\ Freed # {}
    /\ \E c \in CPUs : cpu[c].pc = "deliver" /\ cpu[c].rcv # {}
                        /\ cpu[c].skb.sk = "NULL"

(***************************************************************************)
(* C8: no step makes handled_frames or dropped_frames of a job smaller.    *)
(***************************************************************************)
C8_CountersMonotonic ==
    [][ \A j \in JobIds :
          (Live(j) /\ kmem'[j].state = "alloc")
          => /\ kmem'[j].handled_frames >= kmem[j].handled_frames
             /\ kmem'[j].dropped_frames >= kmem[j].dropped_frames ]_vars

(***************************************************************************)
(* C9: NETDEV_UNREGISTER of a CAN device removes the jobs that have it as  *)
(* source or destination, with their filters, and leaves the other jobs as *)
(* they are; any other event, and any event of a device that is not a CAN  *)
(* device, changes no job and no filter.                                   *)
(***************************************************************************)
C9_LifecycleEviction ==
    [][ \A ev \in Events :
          (MgmtStep(ev[1]) /\ last'.arg = ev[2])
          => LET gone == IF ev[1] = NETDEV_UNREGISTER /\ DevType(ev[2]) = ARPHRD_CAN
                         THEN { j \in InList(cgw_list) :
                                  kmem[j].src_dev = ev[2] \/ kmem[j].dst_dev = ev[2] }
                         ELSE {}
             IN  /\ cgw_list' = SelectSeq(cgw_list, LAMBDA j : j \notin gone)
                 /\ \A f \in rx' : f.data \notin gone
                 /\ \A j \in InList(cgw_list) \ gone :
                      /\ kmem'[j] = kmem[j]
                      /\ cgw_register_filter(j, kmem[j]) \in rx'
                 /\ Cardinality(rx') = Len(cgw_list') ]_vars

C9_Witness ==
    /\ last.op = NETDEV_UNREGISTER /\ last.arg = 2
    /\ Len(cgw_list) = 1
    /\ Cardinality(Freed) = 2

(***************************************************************************)
(* C10: a DEL whose SRC_IF and DST_IF are both 0 returns 0 and leaves the  *)
(* list empty and no filter registered, whatever else it carries.          *)
(***************************************************************************)
C10_FlushAlways ==
    [][ \A i \in ReqIds :
          (MgmtStep("DEL") /\ last'.arg = i /\ SrcDstZero(Requests[i]))
          => last'.err = "0" /\ cgw_list' = << >> /\ rx' = {} ]_vars

(***************************************************************************)
(* C10 as amended: a DEL whose SRC_IF and DST_IF are both 0 returns 0 and  *)
(* leaves the list empty and no filter registered, whatever flags, filter  *)
(* and operators it carries, unless it carries an operator and a checksum  *)
(* attribute with an index outside -8 .. 7: then it returns -EINVAL and    *)
(* removes nothing.                                                        *)
(***************************************************************************)
HasOperator(nlh) ==
    \E t \in {"CGW_MOD_AND", "CGW_MOD_OR", "CGW_MOD_XOR", "CGW_MOD_SET"} :
        /\ Present(nlh.tb, t)
        /\ nlh.tb[t].len = CGW_MODATTR_LEN
        /\ nlh.tb[t].val.modtype % 8 # 0

BadCsum(nlh) ==
    \E t \in {"CGW_CS_XOR", "CGW_CS_CRC8"} :
        /\ Present(nlh.tb, t)
        /\ nlh.tb[t].len = (IF t = "CGW_CS_XOR" THEN CGW_CS_XOR_LEN ELSE CGW_CS_CRC8_LEN)
        /\ \E x \in {nlh.tb[t].val.from_idx, nlh.tb[t].val.to_idx,
                     nlh.tb[t].val.result_idx} : x < -8 \/ x > 7

C10_FlushUnlessBadCsum ==
    [][ \A i \in ReqIds :
          (MgmtStep("DEL") /\ last'.arg = i /\ SrcDstZero(Requests[i]))
          => IF HasOperator(Requests[i]) /\ BadCsum(Requests[i])
             THEN /\ last'.err = "-EINVAL"
                  /\ UNCHANGED << cgw_list, rx, kmem >>
             ELSE /\ last'.err = "0"
                  /\ cgw_list' = << >>
                  /\ rx' = {}
                  /\ \A j \in InList(cgw_list) : kmem'[j] = FreedJob ]_vars

C10_Witness ==
    /\ last.op = "DEL" /\ last.arg = 6 /\ last.err = "0"
    /\ cgw_list = << >> /\ rx = {}
    /\ Cardinality(Freed) >= 2

(***************************************************************************)
(* C11: a DEL that is not a flush and for which no job of the list has     *)
(* equal flags, modification chain and (filter, src_idx, dst_idx) returns  *)
(* not-found (-ENOENT) and changes neither list, filters nor counters.     *)
(***************************************************************************)
NoEqualJob(i) ==
    \A j \in InList(cgw_list) :
        \/ kmem[j].flags # Requests[i].flags
        \/ kmem[j].mod # Parsed[i].mod
        \/ kmem[j].ccgw # Parsed[i].ccgw

OneIdxZero(nlh) ==
    /\ ~SrcDstZero(nlh)
    /\ \/ ~Present(nlh.tb, "CGW_SRC_IF") \/ ~Present(nlh.tb, "CGW_DST_IF")
       \/ nlh.tb["CGW_SRC_IF"].val = 0 \/ nlh.tb["CGW_DST_IF"].val = 0

C12_AddZeroInvalidArg ==
    [][ \A i \in ReqIds :
          (MgmtStep("ADD") /\ last'.arg = i /\ SrcDstZero(Requests[i]))
          => /\ last'.err \in {"-EINVAL", "-ENOMEM"}
             /\ UNCHANGED << cgw_list, rx, kmem >> ]_vars

(***************************************************************************)
(* C12 as amended: such an ADD is rejected with no-dev (-ENODEV), or with  *)
(* -ENOMEM when the allocation failed, or with -EINVAL when it carries an  *)
(* operator and a checksum index outside -8 .. 7; it changes no state.     *)
(***************************************************************************)
C12_AddZeroNoDev ==
    [][ \A i \in ReqIds :
          (MgmtStep("ADD") /\ last'.arg = i /\ SrcDstZero(Requests[i]))
          => /\ last'.err \in
                  { "-ENOMEM",
                    IF HasOperator(Requests[i]) /\ BadCsum(Requests[i])
                    THEN "-EINVAL" ELSE "-ENODEV" }
             /\ UNCHANGED << cgw_list, rx, kmem, netdev >> ]_vars

C12_Witness ==
    /\ last.op = "ADD" /\ last.arg = 6 /\ last.err = "-ENODEV"
    /\ Len(cgw_list) = 2

(***************************************************************************)
(* C13: for a job with an operator and an enabled XOR checksum, the frame  *)
(* handed to can_send has data[result] = init XOR data[from] XOR ... XOR   *)
(* data[to], taken over the frame after the operators, when the indices    *)
(* resolved against dlc lie in 0 .. dlc - 1; otherwise the checksum leaves *)
(* the frame as the operators made it.                                     *)
(***************************************************************************)
Byte(d, k) == IF k < 3 THEN (d \div (256 ^ k)) % 256 ELSE 0

RECURSIVE XorBytes(_, _, _)
XorBytes(d, a, b) == IF a > b THEN 0 ELSE BitXor(Byte(d, a), XorBytes(d, a + 1, b))

Resolve(idx, dlc) == IF idx < 0 THEN dlc + idx ELSE idx

Sends(c) == cpu[c].pc = "entry" /\ cpu'[c].pc \in {"hand_ld", "drop_ld"} /\ cpu'[c].tx.sent

C13_XorChecksum ==
    [][ \A c \in CPUs :
          LET gwj == kmem[cpu[c].gwj]
              x   == gwj.mod.csum.xor
              cf1 == ApplyMods(gwj.mod, cpu[c].skb.cf, 0)
              out == cpu'[c].tx.nskb.cf
              fr  == Resolve(x.from_idx, cf1.can_dlc)
              to  == Resolve(x.to_idx, cf1.can_dlc)
              re  == Resolve(x.result_idx, cf1.can_dlc)
          IN  (Sends(c) /\ Live(cpu[c].gwj) /\ Len(gwj.mod.modfunc) > 0
                 /\ x.from_idx # CGW_CS_DISABLED)
              => IF \A k \in {fr, to, re} : k >= 0 /\ k < cf1.can_dlc
                 THEN Byte(out.data, re) = BitXor(x.init_xor_val, XorBytes(cf1.data, fr, to))
                 ELSE out = cf1 ]_vars

(***************************************************************************)
(* C14: the comparison of DEL (flags, the parsed modification chain, the   *)
(* filter and the interface indices) matches a job exactly when request    *)
(* and job describe the same configuration: the same flags, filter,        *)
(* interfaces and checksum stages and, for each kind, the same operand on  *)
(* each field its modtype selects.                                         *)
(***************************************************************************)
Kinds == {"and", "or", "xor", "set"}

Operand(mod, k, bit, field) ==
    IF BitAnd(mod.modtype[k], bit) # 0 THEN << mod.modframe[k][field] >> ELSE << >>

Configuration(flags, mod, ccgw) ==
    [flags |-> flags, filter |-> ccgw.filter,
     src_idx |-> ccgw.src_idx, dst_idx |-> ccgw.dst_idx,
     csum |-> mod.csum,
     ops |-> [k \in Kinds |->
                [id   |-> Operand(mod, k, CGW_MOD_ID, "can_id"),
                 dlc  |-> Operand(mod, k, CGW_MOD_DLC, "can_dlc"),
                 data |-> Operand(mod, k, CGW_MOD_DATA, "data")]]]

C14_CanonicalEquality ==
    \A j \in InList(cgw_list), i \in ReqIds :
        Parsed[i].err = "0" =>
            (JobMatches(kmem[j], Requests[i], Parsed[i])
               <=> Configuration(kmem[j].flags, kmem[j].mod, kmem[j].ccgw)
                     = Configuration(Requests[i].flags, Parsed[i].mod, Parsed[i].ccgw))

(***************************************************************************)
(* C15: can_can_gw_rcv on an skb without the marker: when the destination  *)
(* is down, nothing is acquired or sent and dropped_frames grows by 1;     *)
(* when the copy or clone fails, nothing is sent and dropped_frames grows  *)
(* by 1; otherwise can_send is called once with the new skb, marked and    *)
(* directed to the destination, and dropped_frames grows by 1 when it      *)
(* fails, handled_frames by 1 when it succeeds.                            *)
(***************************************************************************)
CounterStep(c, pc, counter, other) ==
    (cpu[c].pc = pc /\ cpu'[c].pc # pc /\ Live(cpu[c].gwj))
    => /\ kmem'[cpu[c].gwj][counter] = kmem[cpu[c].gwj][counter] + 1
       /\ kmem'[cpu[c].gwj][other] = kmem[cpu[c].gwj][other]

C15_HotPathOutcome ==
    [][ \A c \in CPUs :
          LET gwj == kmem[cpu[c].gwj]
              tx  == cpu'[c].tx
          IN  /\ (cpu[c].pc = "entry" /\ cpu'[c] # cpu[c] /\ Live(cpu[c].gwj)
                    /\ cpu[c].skb.sk # CGW_SK_MAGIC /\ netdev[gwj.dst_dev].registered)
                 => /\ kmem' = kmem
                    /\ IF ~netdev[gwj.dst_dev].up
                       THEN cpu'[c].pc = "drop_ld" /\ ~tx.sent
                       ELSE \/ cpu'[c].pc = "drop_ld" /\ ~tx.sent
                            \/ /\ tx.sent
                               /\ tx.nskb.sk = CGW_SK_MAGIC
                               /\ tx.nskb.dev = gwj.dst_dev
                               /\ cpu'[c].pc = (IF tx.ok THEN "hand_ld" ELSE "drop_ld")
              /\ (cpu[c].pc = "drop_ld" /\ cpu'[c] # cpu[c])
                 => cpu'[c].pc = "drop_st" /\ cpu'[c].tx = cpu[c].tx /\ kmem' = kmem
              /\ (cpu[c].pc = "hand_ld" /\ cpu'[c] # cpu[c])
                 => cpu'[c].pc = "hand_st" /\ cpu'[c].tx = cpu[c].tx /\ kmem' = kmem
              /\ CounterStep(c, "drop_st", "dropped_frames", "handled_frames")
              /\ CounterStep(c, "hand_st", "handled_frames", "dropped_frames") ]_vars

C15_Witness ==
    \E c \in CPUs :
        /\ cpu[c].pc = "drop_st" /\ ~cpu[c].tx.sent
        /\ Live(cpu[c].gwj)
        /\ ~netdev[kmem[cpu[c].gwj].dst_dev].up
        /\ kmem[cpu[c].gwj].handled_frames = 1
        /\ kmem[cpu[c].gwj].dropped_frames = 1

(***************************************************************************)
(* C16: the frame handed to can_send by the job of a request is the        *)
(* reference composition over the attributes of the request: field f (id,  *)
(* dlc, data) is SET.f when the SET attribute selects f, and otherwise     *)
(* ((in.f AND a.f) OR o.f) XOR x.f, each kind skipped when its attribute   *)
(* does not select f.                                                      *)
(***************************************************************************)
Selects(tb, tag, bit) ==
    /\ Present(tb, tag)
    /\ tb[tag].len = CGW_MODATTR_LEN
    /\ (tb[tag].val.modtype \div bit) % 2 = 1

RefField(tb, f, bit, v) ==
    LET a == IF Selects(tb, "CGW_MOD_AND", bit)
             THEN BitAnd(v, tb["CGW_MOD_AND"].val.cf[f]) ELSE v
        o == IF Selects(tb, "CGW_MOD_OR", bit)
             THEN BitOr(a, tb["CGW_MOD_OR"].val.cf[f]) ELSE a
        x == IF Selects(tb, "CGW_MOD_XOR", bit)
             THEN BitXor(o, tb["CGW_MOD_XOR"].val.cf[f]) ELSE o
    IN  IF Selects(tb, "CGW_MOD_SET", bit) THEN tb["CGW_MOD_SET"].val.cf[f] ELSE x

RefFrame(tb, cf) ==
    [can_id  |-> RefField(tb, "can_id", CGW_MOD_ID, cf.can_id),
     can_dlc |-> RefField(tb, "can_dlc", CGW_MOD_DLC, cf.can_dlc),
     data    |-> RefField(tb, "data", CGW_MOD_DATA, cf.data)]

C16_ChainIsReference ==
    [][ \A c \in CPUs, i \in ReqIds :
          (Sends(c) /\ Live(cpu[c].gwj) /\ Parsed[i].err = "0"
             /\ kmem[cpu[c].gwj].mod = Parsed[i].mod)
          => cpu'[c].tx.nskb.cf = RefFrame(Requests[i].tb, cpu[c].skb.cf) ]_vars

C16_Witness ==
    \E c \in CPUs :
        /\ cpu[c].pc = "hand_ld" /\ cpu[c].tx.sent
        /\ Live(cpu[c].gwj)
        /\ kmem[cpu[c].gwj].mod = Parsed[11].mod
        /\ cpu[c].skb.cf = [can_id |-> 1, can_dlc |-> 2, data |-> 5]
        /\ cpu[c].tx.nskb.cf = [can_id |-> 4, can_dlc |-> 1, data |-> 9]

(***************************************************************************)
(* C17: a request that appends an operator and carries CS_XOR or CS_CRC8   *)
(* is rejected with -EINVAL when an index of the stage is outside -8 .. 7  *)
(* (an ADD whose allocation failed has returned -ENOMEM before), and the   *)
(* list and the filters stay; with all indices inside, the stage is taken  *)
(* over and the request is not rejected for it.  A request that appends no *)
(* operator leaves both stages disabled.                                   *)
(***************************************************************************)
Carries(nlh, t) ==
    /\ Present(nlh.tb, t)
    /\ nlh.tb[t].len = (IF t = "CGW_CS_XOR" THEN CGW_CS_XOR_LEN ELSE CGW_CS_CRC8_LEN)

Added == { j \in JobIds : kmem[j].state = "unused" /\ kmem'[j].state = "alloc" }

C17_ChecksumValidation ==
    [][ \A i \in ReqIds :
          LET nlh == Requests[i]
              p == Parsed[i]
          IN  ((MgmtStep("ADD") \/ MgmtStep("DEL")) /\ last'.arg = i)
              => /\ (HasOperator(nlh) /\ BadCsum(nlh))
                    => /\ p.err = "-EINVAL"
                       /\ last'.err \in {"-EINVAL"} \cup
                            (IF last'.op = "ADD" THEN {"-ENOMEM"} ELSE {})
                       /\ UNCHANGED << cgw_list, rx, kmem >>
                 /\ (HasOperator(nlh) /\ ~BadCsum(nlh))
                    => /\ p.err # "-EINVAL"
                       /\ Carries(nlh, "CGW_CS_XOR")
                            => p.mod.csum.xor = nlh.tb["CGW_CS_XOR"].val
                       /\ Carries(nlh, "CGW_CS_CRC8")
                            => p.mod.csum.crc8 = nlh.tb["CGW_CS_CRC8"].val
                       /\ last'.op = "ADD" => last'.err # "-EINVAL"
                       /\ \A j \in Added : kmem'[j].mod.csum = p.mod.csum
                 /\ ~HasOperator(nlh)
                    => /\ p.mod.csum.xor.from_idx = CGW_CS_DISABLED
                       /\ p.mod.csum.crc8.from_idx = CGW_CS_DISABLED
                       /\ p.err # "-EINVAL"
                       /\ \A j \in Added :
                            /\ kmem'[j].mod.csum.xor = CsumXorInit
                            /\ kmem'[j].mod.csum.crc8 = CsumCrc8Init ]_vars

C17_Witness ==
    /\ last.op = "DEL" /\ last.arg = 12 /\ last.err = "-EINVAL"
    /\ \E j \in InList(cgw_list) : kmem[j].mod = Parsed[11].mod
    /\ \E j \in InList(cgw_list) :
         kmem[j].mod = Parsed[13].mod /\ kmem[j].mod.csum.xor.from_idx = CGW_CS_DISABLED

(***************************************************************************)
(* C18: an ADD or DEL that carries a recognized attribute whose payload    *)
(* length is not the length of that attribute is rejected with -EINVAL     *)
(* (an ADD whose allocation failed has returned -ENOMEM before) and        *)
(* changes no state.                                                       *)
(***************************************************************************)
DefinedLen(t) ==
    CASE t \in {"CGW_MOD_AND", "CGW_MOD_OR", "CGW_MOD_XOR", "CGW_MOD_SET"} -> CGW_MODATTR_LEN
      [] t = "CGW_CS_XOR" -> CGW_CS_XOR_LEN
      [] t = "CGW_CS_CRC8" -> CGW_CS_CRC8_LEN
      [] t = "CGW_FILTER" -> CAN_FILTER_LEN
      [] t \in {"CGW_SRC_IF", "CGW_DST_IF"} -> U32_LEN

BadLength(nlh) == \E t \in DOMAIN nlh.tb : nlh.tb[t].len # DefinedLen(t)

C18_BadLengthRejected ==
    [][ \A i \in ReqIds :
          ((MgmtStep("ADD") \/ MgmtStep("DEL")) /\ last'.arg = i
             /\ BadLength(Requests[i]))
          => /\ last'.err \in {"-EINVAL"} \cup
                  (IF last'.op = "ADD" THEN {"-ENOMEM"} ELSE {})
             /\ UNCHANGED << cgw_list, rx, kmem >> ]_vars

(***************************************************************************)
(* C19: can_can_gw_rcv leaves the skb it was called with as it is: a job   *)
(* without modification function sends a clone whose frame is the frame of *)
(* the skb, a job with one changes a copy only, so every receiver of the   *)
(* skb, the jobs called after this one included, sees the frame received.  *)
(***************************************************************************)
C19_IncomingFrameKept ==
    [][ \A c \in CPUs :
          LET gwj == kmem[cpu[c].gwj]
          IN  /\ (cpu[c].pc # "idle" /\ cpu'[c].pc # "idle")
                 => cpu'[c].skb = cpu[c].skb
              /\ (Sends(c) /\ Live(cpu[c].gwj))
                 => IF Len(gwj.mod.modfunc) = 0
                    THEN /\ ~cpu'[c].tx.copied
                         /\ cpu'[c].tx.nskb.cf = cpu[c].skb.cf
                    ELSE cpu'[c].tx.copied ]_vars

C19_Witness ==
    \E c \in CPUs, j \in InList(cgw_list) :
        /\ cpu[c].pc = "entry" /\ cpu[c].gwj # j
        /\ nframes = 1
        /\ cpu[c].skb.cf = [can_id |-> 1, can_dlc |-> 2, data |-> 5]
        /\ kmem[j].mod = Parsed[11].mod
        /\ kmem[j].handled_frames = 1
        /\ kmem[cpu[c].gwj].mod.modfunc = << >>

(***************************************************************************)
(* C20: with the invocations of can_can_gw_rcv on one core, the counters   *)
(* of a job are 0 after its ADD and change only when an invocation on an   *)
(* skb without the marker ends: then exactly one of them grows by exactly  *)
(* 1, handled_frames when can_send succeeded and dropped_frames otherwise; *)
(* an invocation on a marked skb and the management operations leave the   *)
(* counters of every job that stays as they are.  So handled_frames +      *)
(* dropped_frames counts the ended invocations on unmarked skbs and        *)
(* handled_frames the successful sends.                                    *)
(***************************************************************************)
Ends(c, j) ==
    /\ cpu[c].gwj = j
    /\ cpu[c].pc \in {"drop_st", "hand_st"}
    /\ cpu'[c].pc \in {"idle", "deliver"}

Stays(j) == Live(j) /\ kmem'[j].state = "alloc"

C20_Accounting ==
    [][ /\ \A j \in Added :
             kmem'[j].handled_frames = 0 /\ kmem'[j].dropped_frames = 0
        /\ \A j \in JobIds :
             Stays(j) =>
               IF Ends(1, j)
               THEN /\ cpu[1].skb.sk # CGW_SK_MAGIC
                    /\ IF cpu[1].tx.sent /\ cpu[1].tx.ok
                       THEN /\ kmem'[j].handled_frames = kmem[j].handled_frames + 1
                            /\ kmem'[j].dropped_frames = kmem[j].dropped_frames
                       ELSE /\ kmem'[j].dropped_frames = kmem[j].dropped_frames + 1
                            /\ kmem'[j].handled_frames = kmem[j].handled_frames
               ELSE kmem'[j] = kmem[j]
        /\ (cpu[1].pc = "entry" /\ cpu[1].skb.sk = CGW_SK_MAGIC /\ cpu'[1] # cpu[1])
           => cpu'[1].pc \in {"idle", "deliver"} /\ kmem' = kmem
        /\ (cpu[1].pc = "entry" /\ cpu[1].skb.sk # CGW_SK_MAGIC /\ cpu'[1] # cpu[1])
           => cpu'[1].pc \in {"drop_ld", "hand_ld"}
        /\ (cpu[1].pc \in {"drop_ld", "hand_ld"} /\ cpu'[1] # cpu[1])
           => cpu'[1].pc = (IF cpu[1].pc = "drop_ld" THEN "drop_st" ELSE "hand_st")
      ]_vars

C20_Witness ==
    /\ last.op = "DEL" /\ last.err = "0"
    /\ cpu[1].pc = "idle"
    /\ \E j \in InList(cgw_list) :
         kmem[j].handled_frames = 1 /\ kmem[j].dropped_frames = 1

(***************************************************************************)
(* C21: in every interleaving of an ADD that names a device with the       *)
(* NETDEV_UNREGISTER of that device, once both are over no job of the list *)
(* has the device as source or destination; no cgw_create_job that got the *)
(* device before the event inserts its job after the scan of the notifier. *)
(***************************************************************************)
Gone(d) == ~netdev[d].registered

BoundTo(d) == { j \in InList(cgw_list) : kmem[j].src_dev = d \/ kmem[j].dst_dev = d }

====
